---- MODULE Spec2Model ----
(***************************************************************************)
(* A model of slack-ingestion: main.py (the ingestion run: the three       *)
(* paginated downloads, the channel filter, the JSON artifacts) and        *)
(* gen_call_functions_sh.py (the day-by-day batch generator).              *)
(*                                                                         *)
(* Python values are encoded as follows.  None, True and False are the     *)
(* strings "None", "True", "False" wherever a field may hold either; an    *)
(* optional value (a dict entry that may be missing) is a set with at most *)
(* one element; a dict is a function whose domain is its set of keys.      *)
(***************************************************************************)
EXTENDS Integers, Sequences, FiniteSets, TLC

VARIABLES
    tz,                        \* the zone of the process (its local time)
    list_cap,                  \* the most pages a listing endpoint serves
    hist_cap,                  \* the most pages the history endpoint serves per channel
    pc,                        \* position of the ingestion run
    args,                      \* sys.argv[1..], the positional arguments
    request,                   \* the request argument of ingest_slack_data
    kwargs,                    \* the keyword arguments of ingest_slack_data
    now,                       \* the clock read by the default window (0 until read)
    latest_unix_time,
    oldest_unix_time,
    out_dir,
    channels,
    users,
    conversations,
    next_cursor,
    conversations_by_channel,
    channel_id_list,
    channel_name_list,
    idx,                       \* position of the for loop over the zipped lists
    written,                   \* the save_as_json calls made, in order
    return_str,
    error,                     \* the exception that left ingest_slack_data, if any
    trace,                     \* history: the calls of the running paginator
    served,                    \* history: one entry per finished history download
    f_list,                    \* target_channel_id_name_list alone: its inputs
    f_flag,
    f_out,
    g_pc,                      \* position of the batch generator
    g_args,
    oldest_dt,
    latest_dt,
    start,
    end,
    intervals,
    cmd_lines,
    out_file,
    exit_status                \* the status the generator exited with, if it has

ingest_vars == <<pc, args, request, kwargs, now, latest_unix_time, oldest_unix_time,
                 out_dir, channels, users, conversations, next_cursor,
                 conversations_by_channel, channel_id_list, channel_name_list, idx,
                 written, return_str, error, trace, served>>

filter_vars == <<f_list, f_flag, f_out>>

gen_vars == <<g_pc, g_args, oldest_dt, latest_dt, start, end, intervals,
              cmd_lines, out_file, exit_status>>

env == <<tz, list_cap, hist_cap>>

vars == <<env, ingest_vars, filter_vars, gen_vars>>

--------------------------------------------------------------------------
(* Bounds *)

MaxListCalls == 3

MaxHistCalls == 3

RunListCalls == 2

RunHistCalls == 2

MaxChannels == 3

MaxDay == 4

MaxGenArgs == 3

MaxArgs == 2

--------------------------------------------------------------------------
(* Python values *)

None == "None"

PyTrue == "True"

PyFalse == "False"

TheOne(s) == CHOOSE x \in s : TRUE

EmptyDict == [k \in {} |-> 0]

DictGet(d, k) == IF k \in DOMAIN d THEN {d[k]} ELSE {}

BoundedSeq(S, n) == UNION { [1..k -> S] : k \in 0..n }

RECURSIVE Flatten(_)
Flatten(ss) == IF ss = <<>> THEN <<>> ELSE Head(ss) \o Flatten(Tail(ss))

--------------------------------------------------------------------------
(* Time *)

SecondsPerDay == 86400

TokyoUtcOffset == 32400

\* datetime.now(tz).replace(hour=0, ...) for tz = Asia/Tokyo, as epoch seconds
StartOfToday(t) ==
    ((t + TokyoUtcOffset) \div SecondsPerDay) * SecondsPerDay - TokyoUtcOffset

DefaultWindow(t) ==
    [latest |-> StartOfToday(t), oldest |-> StartOfToday(t) - SecondsPerDay]

\* The zones the process may run in: a UTC offset east of Greenwich, and a
\* daylight-saving shift that applies to local midnights after day dst_day
\* (the clocks change at 01:00 UTC on that day).
TimeZones ==
    { [name |-> "UTC", offset |-> 0, dst_day |-> 1000, shift |-> 0],
      [name |-> "Asia/Tokyo", offset |-> 32400, dst_day |-> 1000, shift |-> 0],
      [name |-> "Europe/London", offset |-> 0, dst_day |-> 2, shift |-> 3600] }

\* datetime.timestamp() of the naive local midnight of calendar day d
Timestamp(z, d) ==
    d * SecondsPerDay - z.offset - (IF d > z.dst_day THEN z.shift ELSE 0)

\* datetime.fromtimestamp(t) in the system zone, as a calendar day
LocalDay(z, t) ==
    LET dst == t >= z.dst_day * SecondsPerDay - z.offset + 3600
    IN  (t + z.offset + (IF dst THEN z.shift ELSE 0)) \div SecondsPerDay

exporting_dir(z, oldest_ut) ==
    [root |-> "slack_lake", target_date |-> LocalDay(z, oldest_ut)]

--------------------------------------------------------------------------
(* The workspace API, as the run sees it *)

ChannelIds == {"CA", "CB"}

NameOf(id) == IF id = "CA" THEN "general" ELSE "random"

ChannelRecords ==
    { [id |-> i, name |-> NameOf(i), is_archived |-> a] :
        i \in ChannelIds, a \in {PyTrue, PyFalse} }

UserRecords == { [id |-> "U1", name |-> "alice"] }

\* a message as conversations.history returns it: no 'channel' field
MessageRecords == { [ts |-> t, channel |-> None] : t \in {"m1", "m2"} }

PagesOf(records) == {<<>>} \cup { <<r>> : r \in records }

ListCursors == {"", "c1", "c2", None}

HistoryCursors == {"", "c1", None}

\* slack_response.get('response_metadata'): missing, or a dict with next_cursor
Metadata(cursors) == {{}} \cup { {[next_cursor |-> c]} : c \in cursors }

ListResponses(records) ==
    { [raised |-> None, items |-> p, has_more |-> None, response_metadata |-> m] :
        p \in PagesOf(records), m \in Metadata(ListCursors) }

HistoryResponses ==
    { [raised |-> None, items |-> p, has_more |-> h, response_metadata |-> m] :
        p \in PagesOf(MessageRecords), h \in {PyTrue, PyFalse, None},
        m \in Metadata(HistoryCursors) }

\* a call that raised instead of returning a response
Raised(kind) ==
    [raised |-> kind, items |-> <<>>, has_more |-> None, response_metadata |-> {}]

ErrorKinds == {"SlackApiError", "OtherError"}

NoError == [kind |-> None, where |-> None]

\* one entry of trace: the cursor the call was made with, and what came back
Call(cursor, resp) == [cursor |-> cursor] @@ resp

Items(tr) == Flatten([i \in 1..Len(tr) |-> tr[i].items])

\* .get('response_metadata').get('next_cursor') of a response that has the dict
NextCursorOf(resp) == TheOne(resp.response_metadata).next_cursor

--------------------------------------------------------------------------
(* main.py: the process entry point and the time window *)

ExplicitLatest == 3 * SecondsPerDay

ExplicitOldest == 2 * SecondsPerDay

Argv(n) == [i \in 1..n |-> IF i = 1 THEN ExplicitLatest ELSE ExplicitOldest]

RequestDicts ==
    { EmptyDict,
      [k \in {"latest_ut"} |-> ExplicitLatest],
      [k \in {"latest_ut", "oldest_ut"} |->
          IF k = "latest_ut" THEN ExplicitLatest ELSE ExplicitOldest] }

\* request.get_json(): None, or the body
RequestBodies == {{}} \cup { {d} : d \in RequestDicts }

Nows == { 4 * SecondsPerDay + 3600 }

\* lines 229-236: latest_ut and oldest_ut start at 0 and are parsed from the
\* command line only when it has more than two words
MainKwargs(a) ==
    IF Len(a) + 1 > 2
    THEN [k \in {"latest_ut", "oldest_ut"} |-> IF k = "latest_ut" THEN a[1] ELSE a[2]]
    ELSE [k \in {"latest_ut", "oldest_ut"} |-> 0]

MainEntry ==
    /\ pc = "start"
    /\ \E n \in 0..MaxArgs :
          /\ args' = Argv(n)
          /\ kwargs' = MainKwargs(Argv(n))
    /\ request' = {}
    /\ pc' = "resolve_window"
    /\ UNCHANGED <<env, filter_vars, gen_vars>>
    /\ UNCHANGED <<now, latest_unix_time, oldest_unix_time, out_dir, channels, users,
                   conversations, next_cursor, conversations_by_channel, channel_id_list,
                   channel_name_list, idx, written, return_str, error, trace, served>>

\* the function called by the platform with a request and no keyword arguments
FunctionEntry ==
    /\ pc = "start"
    /\ \E body \in RequestBodies : request' = {body}
    /\ kwargs' = EmptyDict
    /\ args' = <<>>
    /\ pc' = "resolve_window"
    /\ UNCHANGED <<env, filter_vars, gen_vars>>
    /\ UNCHANGED <<now, latest_unix_time, oldest_unix_time, out_dir, channels, users,
                   conversations, next_cursor, conversations_by_channel, channel_id_list,
                   channel_name_list, idx, written, return_str, error, trace, served>>

\* lines 152-158
Conditions(req, kw) ==
    IF req = {} THEN kw
    ELSE IF TheOne(req) = {} THEN EmptyDict ELSE TheOne(TheOne(req))

\* line 163: latest_unix_time is None or oldest_unix_time is None
WindowMissing(c) == DictGet(c, "latest_ut") = {} \/ DictGet(c, "oldest_ut") = {}

ResolveWindow ==
    /\ pc = "resolve_window"
    /\ LET c == Conditions(request, kwargs) IN
         \/ /\ WindowMissing(c)
            /\ \E t \in Nows :
                 /\ now' = t
                 /\ latest_unix_time' = DefaultWindow(t).latest
                 /\ oldest_unix_time' = DefaultWindow(t).oldest
         \/ /\ ~WindowMissing(c)
            /\ latest_unix_time' = c["latest_ut"]
            /\ oldest_unix_time' = c["oldest_ut"]
            /\ now' = now
    /\ out_dir' = exporting_dir(tz, oldest_unix_time')
    /\ channels' = <<>>
    /\ next_cursor' = None
    /\ trace' = <<>>
    /\ pc' = "download_conversations_list"
    /\ UNCHANGED <<env, filter_vars, gen_vars>>
    /\ UNCHANGED <<args, request, kwargs, users, conversations, conversations_by_channel,
                   channel_id_list, channel_name_list, idx, written, return_str, error,
                   served>>

--------------------------------------------------------------------------
(* main.py: the listing paginators, lines 25-65 *)

\* the list is replaced by the page instead of extended
ListExtend_Overwrite(acc, items) == items

\* lines 39 and 60: channels.extend(...), users.extend(...)
ListExtend(acc, items) == acc \o items

\* lines 41-42 and 62-63: the loop goes on unless next_cursor == ""
NextObjExists(cursor) == cursor # ""

\* the exception is swallowed and the run goes on
ListErrorTarget_Swallowed(after) == after

\* where an exception raised inside a listing paginator ends up: neither the
\* paginator nor ingest_slack_data has a handler
ListErrorTarget(after) == "aborted"

\* One pass of the while loop of a listing paginator.  acc is the list being
\* built, records the kind the endpoint serves, where the endpoint's name,
\* after the position once the list is returned.
ListPass(acc, records, where, after) ==
    /\ Len(trace) < list_cap
    /\ \/ \E resp \in ListResponses(records) :
            /\ trace' = Append(trace, Call(next_cursor, resp))
            /\ acc' = ListExtend(acc, resp.items)
            /\ IF resp.response_metadata = {}
               THEN \* None.get('next_cursor'): AttributeError
                    /\ error' = [kind |-> "AttributeError", where |-> where]
                    /\ pc' = ListErrorTarget(after)
                    /\ next_cursor' = next_cursor
               ELSE /\ next_cursor' = NextCursorOf(resp)
                    /\ pc' = IF NextObjExists(NextCursorOf(resp)) THEN pc ELSE after
                    /\ error' = error
       \/ \E kind \in ErrorKinds :
            /\ trace' = Append(trace, Call(next_cursor, Raised(kind)))
            /\ error' = [kind |-> kind, where |-> where]
            /\ pc' = ListErrorTarget(after)
            /\ UNCHANGED <<acc, next_cursor>>

download_conversations_list ==
    /\ pc = "download_conversations_list"
    /\ ListPass(channels, ChannelRecords, "conversations_list", "save_conversations_list")
    /\ UNCHANGED <<env, filter_vars, gen_vars>>
    /\ UNCHANGED <<args, request, kwargs, now, latest_unix_time, oldest_unix_time,
                   out_dir, users, conversations, conversations_by_channel,
                   channel_id_list, channel_name_list, idx, written, return_str, served>>

download_users_list ==
    /\ pc = "download_users_list"
    /\ ListPass(users, UserRecords, "users_list", "save_users_list")
    /\ UNCHANGED <<env, filter_vars, gen_vars>>
    /\ UNCHANGED <<args, request, kwargs, now, latest_unix_time, oldest_unix_time,
                   out_dir, channels, conversations, conversations_by_channel,
                   channel_id_list, channel_name_list, idx, written, return_str, served>>

\* save_as_json(data, out_dir + '/' + fname)
Saved(data, fname) == [dir |-> out_dir, fname |-> fname, data |-> data]

\* lines 179-183: the list is returned and saved, the users download starts
SaveConversationsList ==
    /\ pc = "save_conversations_list"
    /\ written' = Append(written, Saved(channels, "conversations_list.json"))
    /\ users' = <<>>
    /\ next_cursor' = None
    /\ trace' = <<>>
    /\ pc' = "download_users_list"
    /\ UNCHANGED <<env, filter_vars, gen_vars>>
    /\ UNCHANGED <<args, request, kwargs, now, latest_unix_time, oldest_unix_time,
                   out_dir, channels, conversations, conversations_by_channel,
                   channel_id_list, channel_name_list, idx, return_str, error, served>>

--------------------------------------------------------------------------
(* main.py: the channel filter, lines 103-117 *)

\* only channels whose flag is False are kept
RECURSIVE target_channel_id_name_list_OnlyFalse(_, _)
target_channel_id_name_list_OnlyFalse(conversations_list, including_archived) ==
    IF conversations_list = <<>> THEN [id_list |-> <<>>, name_list |-> <<>>]
    ELSE LET ch == Head(conversations_list)
             rest == target_channel_id_name_list_OnlyFalse(Tail(conversations_list),
                                                           including_archived)
         IN  IF including_archived = PyFalse /\ ch.is_archived # PyFalse
             THEN rest
             ELSE [id_list |-> <<ch.id>> \o rest.id_list,
                   name_list |-> <<ch.name>> \o rest.name_list]

RECURSIVE target_channel_id_name_list(_, _)
target_channel_id_name_list(conversations_list, including_archived) ==
    IF conversations_list = <<>> THEN [id_list |-> <<>>, name_list |-> <<>>]
    ELSE LET ch == Head(conversations_list)
             rest == target_channel_id_name_list(Tail(conversations_list),
                                                 including_archived)
         IN  IF including_archived = PyFalse /\ ch.is_archived = PyTrue
             THEN rest
             ELSE [id_list |-> <<ch.id>> \o rest.id_list,
                   name_list |-> <<ch.name>> \o rest.name_list]

\* zip(channel_id_list, channel_name_list): as long as the shorter list
ZipLen == IF Len(channel_id_list) <= Len(channel_name_list)
          THEN Len(channel_id_list) ELSE Len(channel_name_list)

--------------------------------------------------------------------------
(* main.py: the history paginator, lines 68-100 *)

\* the messages are left as the endpoint returned them
TagMessages_Untagged(items, channel) == items

\* lines 87-88: item.update({"channel": channel})
TagMessages(items, channel) ==
    [i \in 1..Len(items) |-> [items[i] EXCEPT !.channel = channel]]

\* has_more is not looked at
HistoryNextCursor_IgnoresHasMore(resp) ==
    IF resp.response_metadata = {} THEN {} ELSE {NextCursorOf(resp)}

\* lines 90-93: the cursor after a response; {} when the response has no
\* response_metadata to read it from (AttributeError)
HistoryNextCursor(resp) ==
    IF resp.has_more = PyFalse THEN {""}
    ELSE IF resp.response_metadata = {} THEN {}
    ELSE {NextCursorOf(resp)}

\* no handler: SlackApiError leaves the function like any other exception
HistoryErrorTarget_NoHandler(kind) == "aborted"

\* lines 94-96: SlackApiError is logged and the loop is left by break
HistoryErrorTarget(kind) ==
    IF kind = "SlackApiError" THEN "history_return" ELSE "aborted"

\* the for loop of lines 189-196 moves to position i: the next download starts,
\* or the loop is over
ForLoopAt(i, n) ==
    /\ idx' = i
    /\ conversations_by_channel' = <<>>
    /\ next_cursor' = None
    /\ trace' = <<>>
    /\ pc' = IF i <= n THEN "download_conversations_history" ELSE "save_history"

\* lines 184-188: users saved, channels filtered, the for loop entered
SaveUsersList ==
    /\ pc = "save_users_list"
    /\ written' = Append(written, Saved(users, "users_list.json"))
    /\ LET t == target_channel_id_name_list(channels, PyFalse) IN
         /\ channel_id_list' = t.id_list
         /\ channel_name_list' = t.name_list
         /\ ForLoopAt(1, IF Len(t.id_list) <= Len(t.name_list)
                         THEN Len(t.id_list) ELSE Len(t.name_list))
    /\ conversations' = <<>>
    /\ UNCHANGED <<env, filter_vars, gen_vars>>
    /\ UNCHANGED <<args, request, kwargs, now, latest_unix_time, oldest_unix_time,
                   out_dir, channels, users, return_str, error, served>>

\* one pass of the while loop of download_conversations_history
download_conversations_history ==
    /\ pc = "download_conversations_history"
    /\ Len(trace) < hist_cap
    /\ LET channel == channel_id_list[idx] IN
       \/ \E resp \in HistoryResponses :
            /\ trace' = Append(trace, Call(next_cursor, resp))
            /\ conversations_by_channel' =
                   conversations_by_channel \o TagMessages(resp.items, channel)
            /\ IF HistoryNextCursor(resp) = {}
               THEN /\ error' = [kind |-> "AttributeError",
                                 where |-> "conversations_history"]
                    /\ pc' = HistoryErrorTarget("AttributeError")
                    /\ next_cursor' = next_cursor
               ELSE /\ next_cursor' = TheOne(HistoryNextCursor(resp))
                    /\ pc' = IF NextObjExists(TheOne(HistoryNextCursor(resp)))
                             THEN pc ELSE "history_return"
                    /\ error' = error
       \/ \E kind \in ErrorKinds :
            /\ trace' = Append(trace, Call(next_cursor, Raised(kind)))
            /\ pc' = HistoryErrorTarget(kind)
            /\ error' = IF HistoryErrorTarget(kind) = "aborted"
                        THEN [kind |-> kind, where |-> "conversations_history"]
                        ELSE error
            /\ UNCHANGED <<conversations_by_channel, next_cursor>>
    /\ UNCHANGED <<env, filter_vars, gen_vars>>
    /\ UNCHANGED <<args, request, kwargs, now, latest_unix_time, oldest_unix_time,
                   out_dir, channels, users, conversations, channel_id_list,
                   channel_name_list, idx, written, return_str, served>>

\* lines 195-196 and the next turn of the for loop
HistoryReturn ==
    /\ pc = "history_return"
    /\ conversations' = IF Len(conversations_by_channel) > 0
                        THEN conversations \o conversations_by_channel
                        ELSE conversations
    /\ served' = Append(served, [channel |-> channel_id_list[idx],
                                 latest |-> latest_unix_time,
                                 oldest |-> oldest_unix_time,
                                 msgs |-> Items(trace),
                                 raised |-> trace[Len(trace)].raised])
    /\ ForLoopAt(idx + 1, ZipLen)
    /\ UNCHANGED <<env, filter_vars, gen_vars>>
    /\ UNCHANGED <<args, request, kwargs, now, latest_unix_time, oldest_unix_time,
                   out_dir, channels, users, channel_id_list, channel_name_list,
                   written, return_str, error>>

\* line 197
SaveHistory ==
    /\ pc = "save_history"
    /\ written' = Append(written, Saved(conversations, "conversations_history.json"))
    /\ pc' = "finish"
    /\ UNCHANGED <<env, filter_vars, gen_vars>>
    /\ UNCHANGED <<args, request, kwargs, now, latest_unix_time, oldest_unix_time,
                   out_dir, channels, users, conversations, next_cursor,
                   conversations_by_channel, channel_id_list, channel_name_list, idx,
                   return_str, error, trace, served>>

Success == "Successfully ingested slack data."

\* lines 207-212: the log is copied and the success string returned
Finish ==
    /\ pc = "finish"
    /\ return_str' = Success
    /\ pc' = "done"
    /\ UNCHANGED <<env, filter_vars, gen_vars>>
    /\ UNCHANGED <<args, request, kwargs, now, latest_unix_time, oldest_unix_time,
                   out_dir, channels, users, conversations, next_cursor,
                   conversations_by_channel, channel_id_list, channel_name_list, idx,
                   written, error, trace, served>>

--------------------------------------------------------------------------
(* The ingestion run *)

\* call_functions_batch.sh: its content if it exists, and how many times it
\* was opened for writing
NoFile == [content |-> {}, opened |-> 0]

IdleFilter == f_list = <<>> /\ f_flag = PyFalse /\ f_out = {}

IdleGen ==
    /\ g_pc = "idle" /\ g_args = <<>> /\ oldest_dt = 0 /\ latest_dt = 0
    /\ start = 0 /\ end = 0 /\ intervals = <<>> /\ cmd_lines = <<>>
    /\ out_file = NoFile /\ exit_status = {}

IdleIngest ==
    /\ pc = "idle" /\ args = <<>> /\ request = {} /\ kwargs = EmptyDict /\ now = 0
    /\ latest_unix_time = 0 /\ oldest_unix_time = 0
    /\ out_dir = None /\ channels = <<>> /\ users = <<>> /\ conversations = <<>>
    /\ next_cursor = None /\ conversations_by_channel = <<>>
    /\ channel_id_list = <<>> /\ channel_name_list = <<>> /\ idx = 0
    /\ written = <<>> /\ return_str = None /\ error = NoError
    /\ trace = <<>> /\ served = <<>>

RunZones == { z \in TimeZones : z.name = "UTC" }

Init ==
    /\ tz \in RunZones
    /\ list_cap = RunListCalls
    /\ hist_cap = RunHistCalls
    /\ pc = "start" /\ args = <<>> /\ request = {} /\ kwargs = EmptyDict /\ now = 0
    /\ latest_unix_time = 0 /\ oldest_unix_time = 0
    /\ out_dir = None /\ channels = <<>> /\ users = <<>> /\ conversations = <<>>
    /\ next_cursor = None /\ conversations_by_channel = <<>>
    /\ channel_id_list = <<>> /\ channel_name_list = <<>> /\ idx = 0
    /\ written = <<>> /\ return_str = None /\ error = NoError
    /\ trace = <<>> /\ served = <<>>
    /\ IdleFilter
    /\ IdleGen

Next ==
    \/ MainEntry
    \/ FunctionEntry
    \/ ResolveWindow
    \/ download_conversations_list
    \/ SaveConversationsList
    \/ download_users_list
    \/ SaveUsersList
    \/ download_conversations_history
    \/ HistoryReturn
    \/ SaveHistory
    \/ Finish

Spec == Init /\ [][Next]_vars

--------------------------------------------------------------------------
(* A listing paginator called on its own against an endpoint *)

InitList ==
    /\ tz \in RunZones
    /\ list_cap = MaxListCalls
    /\ hist_cap = MaxHistCalls
    /\ pc \in {"download_conversations_list", "download_users_list"}
    /\ args = <<>> /\ request = {} /\ kwargs = EmptyDict /\ now = 0
    /\ latest_unix_time = 0 /\ oldest_unix_time = 0
    /\ out_dir = None /\ channels = <<>> /\ users = <<>> /\ conversations = <<>>
    /\ next_cursor = None /\ conversations_by_channel = <<>>
    /\ channel_id_list = <<>> /\ channel_name_list = <<>> /\ idx = 0
    /\ written = <<>> /\ return_str = None /\ error = NoError
    /\ trace = <<>> /\ served = <<>>
    /\ IdleFilter
    /\ IdleGen

NextList ==
    \/ download_conversations_list
    \/ download_users_list

SpecList == InitList /\ [][NextList]_vars

--------------------------------------------------------------------------
(* download_conversations_history called on its own for one channel *)

InitHistory ==
    /\ tz \in RunZones
    /\ list_cap = MaxListCalls
    /\ hist_cap = MaxHistCalls
    /\ pc = "download_conversations_history"
    /\ args = <<>> /\ request = {} /\ kwargs = EmptyDict /\ now = 0
    /\ latest_unix_time = ExplicitLatest /\ oldest_unix_time = ExplicitOldest
    /\ out_dir = None /\ channels = <<>> /\ users = <<>> /\ conversations = <<>>
    /\ next_cursor = None /\ conversations_by_channel = <<>>
    /\ \E id \in ChannelIds :
          /\ channel_id_list = <<id>>
          /\ channel_name_list = <<NameOf(id)>>
    /\ idx = 1
    /\ written = <<>> /\ return_str = None /\ error = NoError
    /\ trace = <<>> /\ served = <<>>
    /\ IdleFilter
    /\ IdleGen

NextHistory ==
    \/ download_conversations_history
    \/ HistoryReturn

SpecHistory == InitHistory /\ [][NextHistory]_vars

--------------------------------------------------------------------------
(* target_channel_id_name_list called on its own *)

\* the channel list handed to the filter: is_archived may hold any value
FilterRecords ==
    { [id |-> i, name |-> NameOf(i), is_archived |-> a] :
        i \in ChannelIds, a \in {PyTrue, PyFalse, None} }

InitFilter ==
    /\ tz \in RunZones
    /\ list_cap = MaxListCalls
    /\ hist_cap = MaxHistCalls
    /\ IdleIngest
    /\ IdleGen
    /\ f_list \in BoundedSeq(FilterRecords, MaxChannels)
    /\ f_flag \in {PyTrue, PyFalse}
    /\ f_out = {}

ApplyFilter ==
    /\ f_out = {}
    /\ f_out' = {target_channel_id_name_list(f_list, f_flag)}
    /\ UNCHANGED <<env, ingest_vars, gen_vars, f_list, f_flag>>

NextFilter == ApplyFilter

SpecFilter == InitFilter /\ [][NextFilter]_vars

--------------------------------------------------------------------------
(* gen_call_functions_sh.py *)

\* a command-line word: a date in the format %Y-%m-%d (as a day number), or
\* a word strptime rejects
DateWords ==
    { [valid |-> TRUE, day |-> d] : d \in 0..MaxDay } \cup {[valid |-> FALSE, day |-> 0]}

\* call_functions_batch.sh as left by an earlier run (NoFile: it does not exist)
StaleFile == [content |-> {<<"stale">>}, opened |-> 0]

\* equal dates pass the check
UsageError_Strict(oldest, latest) == oldest > latest

\* line 18
UsageError(oldest, latest) == oldest >= latest

\* the last day is left out
SplitContinues_Strict(e, latest) == e < latest

\* line 26
SplitContinues(e, latest) == e <= latest

\* lines 46-56: the argument count is checked before main() is called
GenEntry ==
    /\ g_pc = "start"
    /\ \E argv \in BoundedSeq(DateWords, MaxGenArgs) :
          /\ g_args' = argv
          /\ IF Len(argv) + 1 # 3
             THEN g_pc' = "exited" /\ exit_status' = {1}
             ELSE g_pc' = "main" /\ exit_status' = exit_status
    /\ UNCHANGED <<env, ingest_vars, filter_vars, oldest_dt, latest_dt, start, end,
                   intervals, cmd_lines, out_file>>

\* lines 13-25: the dates are parsed and ordered; a word strptime rejects
\* raises ValueError, which ends the process with status 1
GenParse ==
    /\ g_pc = "main"
    /\ IF ~g_args[1].valid \/ ~g_args[2].valid
       THEN /\ g_pc' = "exited"
            /\ exit_status' = {1}
            /\ UNCHANGED <<oldest_dt, latest_dt, start, end>>
       ELSE /\ oldest_dt' = g_args[1].day
            /\ latest_dt' = g_args[2].day
            /\ IF UsageError(g_args[1].day, g_args[2].day)
               THEN /\ g_pc' = "exited"
                    /\ exit_status' = {1}
                    /\ UNCHANGED <<start, end>>
               ELSE /\ g_pc' = "split"
                    /\ start' = g_args[1].day
                    /\ end' = g_args[1].day + 1
                    /\ exit_status' = exit_status
    /\ UNCHANGED <<env, ingest_vars, filter_vars, g_args, intervals, cmd_lines, out_file>>

\* lines 26-29: one pass of the while loop
GenSplit ==
    /\ g_pc = "split"
    /\ SplitContinues(end, latest_dt)
    /\ intervals' = Append(intervals, <<Timestamp(tz, start), Timestamp(tz, end)>>)
    /\ start' = end
    /\ end' = end + 1
    /\ UNCHANGED <<env, ingest_vars, filter_vars, g_pc, g_args, oldest_dt, latest_dt,
                   cmd_lines, out_file, exit_status>>

\* lines 32-39: two lines per interval, the second with latest_ut before oldest_ut
CmdLines(ivs) ==
    Flatten([i \in 1..Len(ivs) |->
        << [cmd |-> "echo exec call function", n |-> i, latest_ut |-> 0, oldest_ut |-> 0],
           [cmd |-> "python main.py", n |-> i,
            latest_ut |-> ivs[i][2], oldest_ut |-> ivs[i][1]] >>])

GenRender ==
    /\ g_pc = "split"
    /\ ~SplitContinues(end, latest_dt)
    /\ cmd_lines' = CmdLines(intervals)
    /\ g_pc' = "write"
    /\ UNCHANGED <<env, ingest_vars, filter_vars, g_args, oldest_dt, latest_dt, start,
                   end, intervals, out_file, exit_status>>

\* lines 42-43, and the process ends with status 0
GenWrite ==
    /\ g_pc = "write"
    /\ out_file' = [content |-> {cmd_lines}, opened |-> out_file.opened + 1]
    /\ g_pc' = "exited"
    /\ exit_status' = {0}
    /\ UNCHANGED <<env, ingest_vars, filter_vars, g_args, oldest_dt, latest_dt, start,
                   end, intervals, cmd_lines>>

InitGen ==
    /\ tz \in TimeZones
    /\ list_cap = MaxListCalls
    /\ hist_cap = MaxHistCalls
    /\ IdleIngest
    /\ IdleFilter
    /\ g_pc = "start" /\ g_args = <<>> /\ oldest_dt = 0 /\ latest_dt = 0
    /\ start = 0 /\ end = 0 /\ intervals = <<>> /\ cmd_lines = <<>>
    /\ out_file \in {NoFile, StaleFile}
    /\ exit_status = {}

NextGen ==
    \/ GenEntry
    \/ GenParse
    \/ GenSplit
    \/ GenRender
    \/ GenWrite

SpecGen == InitGen /\ [][NextGen]_vars

--------------------------------------------------------------------------
(* Properties *)

\* what a call's response said about further pages: {} when the call raised or
\* the response had no response_metadata, else the next_cursor it carried
Returned(c) ==
    IF c.raised # None \/ c.response_metadata = {} THEN {} ELSE {NextCursorOf(c)}

InListing == pc \in {"download_conversations_list", "download_users_list"}

ListReturned == pc \in {"save_conversations_list", "save_users_list"}

ListResult == IF pc \in {"download_conversations_list", "save_conversations_list"}
              THEN channels ELSE users

\* C1: a listing paginator makes its first call with no cursor and every later
\* call with the cursor the call before returned; it returns exactly when a
\* response carries the empty cursor, so an endpoint answering with non-empty
\* cursors c1..cN-1 and then "" is called N times; and the list it returns is
\* the N pages' items, concatenated in page order.
C1_ListPaginatorConcatenatesPages ==
    /\ (InListing \/ ListReturned) =>
          /\ \A k \in 1..Len(trace) :
                trace[k].cursor = IF k = 1 THEN None ELSE TheOne(Returned(trace[k-1]))
          /\ \A k \in 1..(Len(trace) - 1) :
                Returned(trace[k]) # {} /\ Returned(trace[k]) # {""}
          /\ ListResult = Items(trace)
    /\ InListing /\ trace # <<>> =>
          /\ Returned(trace[Len(trace)]) \notin {{}, {""}}
          /\ next_cursor = TheOne(Returned(trace[Len(trace)]))
    /\ ListReturned =>
          /\ Len(trace) >= 1
          /\ Returned(trace[Len(trace)]) = {""}

C1_Witness ==
    /\ pc = "save_conversations_list"
    /\ Len(trace) = 3
    /\ trace[2].cursor = "c1"
    /\ trace[3].cursor = "c2"
    /\ Len(channels) = 3
    /\ channels[1] # channels[2]
    /\ channels[2] # channels[3]

\* a response that signals no further pages: its cursor is empty or absent
NoFurtherPages(c) == Returned(c) \in {{""}, {None}}

\* C9: a listing paginator makes no call after a response whose cursor is the
\* empty string or absent, and returns once it has received one.
C9_ListStopsOnEmptyOrAbsentCursor ==
    (InListing \/ ListReturned) =>
        \A k \in 1..Len(trace) :
            NoFurtherPages(trace[k]) => k = Len(trace) /\ ListReturned

InHistory == pc \in {"download_conversations_history", "history_return"}

\* C10: in download_conversations_history a response with has_more False ends
\* the pagination, whatever its next_cursor, once its messages are appended; a
\* response whose has_more is not False makes the next call use its next_cursor,
\* and ends the pagination only if that cursor is the empty string.
C10_HasMoreFalseEndsPagination ==
    InHistory =>
        /\ conversations_by_channel = TagMessages(Items(trace), channel_id_list[idx])
        /\ \A k \in 1..Len(trace) :
              LET c == trace[k]
                  last == k = Len(trace)
              IN  c.raised = None =>
                    IF c.has_more = PyFalse
                    THEN last /\ pc = "history_return"
                    ELSE /\ Returned(c) # {}
                         /\ IF Returned(c) = {""}
                            THEN last /\ pc = "history_return"
                            ELSE IF last
                                 THEN /\ pc = "download_conversations_history"
                                      /\ next_cursor = TheOne(Returned(c))
                                 ELSE trace[k+1].cursor = TheOne(Returned(c))

C10_Witness ==
    /\ pc = "history_return"
    /\ Len(trace) = 2
    /\ trace[1].has_more = None
    /\ trace[2].cursor = "c1"
    /\ trace[2].has_more = PyFalse
    /\ Returned(trace[2]) = {"c1"}
    /\ Len(conversations_by_channel) = 2

\* the ids of the channels whose archived flag is not True, in list order
OpenIds(list) ==
    LET Open(ch) == ch.is_archived # PyTrue
        open == SelectSeq(list, Open)
    IN  [i \in 1..Len(open) |-> open[i].id]

\* what the finished history downloads contributed, in the order they ran
Contributions ==
    Flatten([i \in 1..Len(served) |-> TagMessages(served[i].msgs, served[i].channel)])

FileNames == [i \in 1..Len(written) |-> written[i].fname]

AfterHistory == pc \in {"save_history", "finish", "done"}

\* C2: when a conversations_history call raises SlackApiError, no further call
\* is made for that channel, the channel contributes the messages of the pages
\* received before the error, the run is not aborted, every channel of the
\* filtered list is still queried in order, conversations_history.json is
\* written with all contributions and the run returns the success string.
C2_HistoryErrorSkipsChannelOnly ==
    /\ InHistory =>
          /\ \A k \in 1..(Len(trace) - 1) : trace[k].raised = None
          /\ conversations_by_channel = TagMessages(Items(trace), channel_id_list[idx])
          /\ trace # <<>> /\ trace[Len(trace)].raised = "SlackApiError" =>
                pc = "history_return"
    /\ ~(error.kind = "SlackApiError" /\ error.where = "conversations_history")
    /\ \A i \in 1..Len(served) : served[i].channel = channel_id_list[i]
    /\ pc \in {"download_conversations_history", "history_return"} =>
          Len(served) = idx - 1 /\ conversations = Contributions
    /\ AfterHistory =>
          /\ Len(served) = Len(channel_id_list)
          /\ conversations = Contributions
    /\ pc \in {"finish", "done"} =>
          /\ Len(written) = 3
          /\ written[3].fname = "conversations_history.json"
          /\ written[3].data = Contributions
    /\ pc = "done" => return_str = Success

C2_Witness ==
    /\ pc = "done"
    /\ return_str = Success
    /\ Len(served) = 2
    /\ served[1].raised = "SlackApiError"
    /\ Len(served[1].msgs) = 1
    /\ Len(served[2].msgs) = 2
    /\ Len(written[3].data) = 3

\* C3: a run started from the command line with no positional arguments uses
\* the default window (yesterday 00:00 to today 00:00 in Asia/Tokyo, so oldest
\* is before latest) for the export directory and for every history call; the
\* supplied timestamps are used only when two positional arguments were given.
C3_NoArgumentsUseDefaultWindow ==
    (request = {} /\ pc \notin {"start", "resolve_window"}) =>
        IF Len(args) = 2
        THEN latest_unix_time = args[1] /\ oldest_unix_time = args[2]
        ELSE /\ now \in Nows
             /\ latest_unix_time = DefaultWindow(now).latest
             /\ oldest_unix_time = DefaultWindow(now).oldest
             /\ oldest_unix_time < latest_unix_time
             /\ out_dir = exporting_dir(tz, DefaultWindow(now).oldest)
             /\ \A i \in 1..Len(served) :
                   /\ served[i].latest = DefaultWindow(now).latest
                   /\ served[i].oldest = DefaultWindow(now).oldest

C8_ListingErrorAbortsRun ==
    error.where \in {"conversations_list", "users_list"} =>
        /\ pc = "aborted"
        /\ return_str = None
        /\ served = <<>>
        /\ idx = 0
        /\ conversations = <<>>
        /\ FileNames = IF error.where = "conversations_list" THEN <<>>
                       ELSE <<"conversations_list.json">>
        /\ error.where = "users_list" => written[1].data = channels

C8_Witness ==
    /\ pc = "aborted"
    /\ error = [kind |-> "SlackApiError", where |-> "users_list"]
    /\ Len(trace) = 2
    /\ Len(written) = 1
    /\ Len(written[1].data) = 2

\* C7: target_channel_id_name_list returns the ids and the names of the
\* channels in input order, of every channel when including_archived is True
\* and of those whose archived flag is not True when it is False; the two
\* lists have the same length and position i of both is the same channel; an
\* empty input gives two empty lists.
C7_FilterKeepsOrderAndPairs ==
    f_out # {} =>
        LET out == TheOne(f_out)
            Kept(ch) == f_flag = PyTrue \/ ch.is_archived # PyTrue
            kept == SelectSeq(f_list, Kept)
        IN  /\ Len(out.id_list) = Len(out.name_list)
            /\ out.id_list = [i \in 1..Len(kept) |-> kept[i].id]
            /\ out.name_list = [i \in 1..Len(kept) |-> kept[i].name]
            /\ f_list = <<>> => out.id_list = <<>> /\ out.name_list = <<>>

C7_Witness ==
    /\ f_out # {}
    /\ f_flag = PyFalse
    /\ Len(f_list) = 3
    /\ f_list[1].is_archived = PyTrue
    /\ f_list[2].is_archived = None
    /\ f_list[3].is_archived = PyFalse
    /\ f_list[2].id # f_list[3].id
    /\ Len(TheOne(f_out).id_list) = 2

GenArgsValid == Len(g_args) = 2 /\ g_args[1].valid /\ g_args[2].valid

\* C4: for dates oldest < latest the generator builds latest - oldest
\* intervals; the first starts at oldest, interval i runs from the local
\* midnight of day oldest + i - 1 to that of the next day, each starts where
\* the one before ends, and the last ends at latest.
C4_SplitCoversRangeDayByDay ==
    /\ g_pc = "split" =>
          /\ oldest_dt < latest_dt
          /\ start = oldest_dt + Len(intervals)
          /\ end = start + 1
          /\ start <= latest_dt
    /\ g_pc \in {"split", "write"} \/ exit_status = {0} =>
          \A i \in 1..Len(intervals) :
              /\ intervals[i] = << Timestamp(tz, oldest_dt + i - 1),
                                   Timestamp(tz, oldest_dt + i) >>
              /\ intervals[i][1] < intervals[i][2]
              /\ i > 1 => intervals[i][1] = intervals[i-1][2]
              /\ intervals[i][2] <= Timestamp(tz, latest_dt)
    /\ g_pc = "write" \/ exit_status = {0} =>
          /\ Len(intervals) = latest_dt - oldest_dt
          /\ intervals[1][1] = Timestamp(tz, oldest_dt)
          /\ intervals[Len(intervals)][2] = Timestamp(tz, latest_dt)
    /\ g_pc = "exited" /\ GenArgsValid /\ g_args[1].day < g_args[2].day =>
          exit_status = {0}

C4_Witness ==
    /\ exit_status = {0}
    /\ tz.name = "Europe/London"
    /\ oldest_dt = 1
    /\ latest_dt = 4
    /\ Len(intervals) = 3
    /\ intervals[2][2] - intervals[2][1] # SecondsPerDay

\* the command line is a usage error: not two arguments, or dates not in order
GenUsageError ==
    /\ g_pc # "start"
    /\ \/ Len(g_args) # 2
       \/ GenArgsValid /\ g_args[1].day >= g_args[2].day

\* C5: on a usage error (an argument count other than two, or oldest >= latest)
\* the generator exits with a non-zero status and call_functions_batch.sh is
\* never opened: it is neither created nor modified.
C5_UsageErrorWritesNothing ==
    GenUsageError =>
        /\ g_pc \in {"main", "exited"}
        /\ g_pc = "exited" => exit_status = {1}
        /\ out_file \in {NoFile, StaleFile}
        /\ intervals = <<>> /\ cmd_lines = <<>>

C5_Witness ==
    /\ g_pc = "exited"
    /\ exit_status = {1}
    /\ GenArgsValid
    /\ g_args[1].day = g_args[2].day
    /\ out_file = StaleFile

====
